---- MODULE Spec2Model ----
(***************************************************************************)
(* Model of the ShopSite `.aa` deserializer (crate shopsite-aa, module de). *)
(*                                                                         *)
(* The cursor (struct Deserializer) is the record `de`; the byte source is *)
(* the sequence `input`, read through the offset de.rd.  The consumer is a *)
(* serde visitor that pulls entries with next_key / next_value and, for a  *)
(* sequence, elements with next_element; the shape it requests for every   *)
(* value is `shape`.  Each handler is one action, its loops are recursive  *)
(* operators.                                                              *)
(***************************************************************************)
EXTENDS Integers, Sequences, FiniteSets, TLC

(***************************************************************************)
(* Bounds of the model.                                                    *)
(***************************************************************************)
MaxLen == 3

\* Elements of one sequence the consumer's Vec records; further pushes are
\* counted no more.  Always larger than any sequence a line of MaxLen bytes
\* can hold.
MaxElems == MaxLen + 2

(***************************************************************************)
(* Bytes the scanner tells apart.                                          *)
(***************************************************************************)
SOH == 1
TAB == 9
LF == 10
FF == 12
CR == 13
SP == 32
HASH == 35
PLUS == 43
DIGIT0 == 48
DIGIT1 == 49
DIGIT9 == 57
COLON == 58
PIPE == 124
DEL == 127

\* Option<u8>::None, for peeked_byte and for the results of reads.
None == 0 - 1

\* What the byte source answers to a read, besides a byte: Err of kind
\* Interrupted, and Err of any other kind.
Interrupted == 0 - 2
IoFailure == 0 - 3

\* Position::file: None, and the path of a file.
NoFile == "<unknown>"
Files == {NoFile, "test.aa"}

\* Result::Err(Error::Io { error, file }) of a scanner method, and no error.
NoIoError == [kind |-> "none", file |-> NoFile]
IoError(file) == [kind |-> "Io", file |-> file]

Alphabet == {SOH, TAB, LF, FF, CR, SP, HASH, DIGIT1, COLON, PIPE, DEL}

RECURSIVE SeqsUpTo(_, _)
SeqsUpTo(S, n) ==
    IF n = 0 THEN {<<>>}
    ELSE LET shorter == SeqsUpTo(S, n - 1)
         IN shorter \cup {Append(s, b) : s \in {t \in shorter : Len(t) = n - 1}, b \in S}

Inputs == SeqsUpTo(Alphabet, MaxLen)

(***************************************************************************)
(* Shapes a consumer requests, outermost constructor first:                *)
(* <<"seq", "opt", "str">> is Vec<Option<String>>.                         *)
(***************************************************************************)
ScalarShapes ==
    {<<"str">>, <<"unit">>, <<"ign">>, <<"u8">>, <<"char">>, <<"opt", "str">>, <<"opt", "u8">>}

ElemShapes == {<<"str">>, <<"ign">>, <<"u8">>, <<"opt", "str">>, <<"seq", "str">>}

Shapes == ScalarShapes \cup {<<"seq">> \o e : e \in ElemShapes}

(***************************************************************************)
(* What the engine hands to the visitor.                                   *)
(***************************************************************************)
VUnit == [t |-> "unit", v |-> <<>>]
VNone == [t |-> "none", v |-> <<>>]
VStr(s) == [t |-> "str", v |-> s]
VInt(n) == [t |-> "u8", v |-> <<n>>]
VChar(c) == [t |-> "char", v |-> <<c>>]
VSome(x) == [t |-> "some", v |-> <<x>>]
VSeq(xs) == [t |-> "seq", v |-> xs]

NoError == [kind |-> "none", line |-> 0, column |-> 0]

(***************************************************************************)
(* Deserializer::new                                                       *)
(***************************************************************************)
NewDeserializer ==
    [rd |-> 0, line |-> 1, column |-> 1, buf_b |-> <<>>, buf_s |-> <<>>,
     last_byte |-> 0, peeked_byte |-> None, reached_eof |-> FALSE, file |-> NoFile]

(***************************************************************************)
(* parser_io.rs: read_byte_raw, read_byte, peek_byte                       *)
(***************************************************************************)
\* read_byte_raw that does not retry: an interrupted read is an error as
\* any other.
ReadByteRaw_InterruptedFails(in, d) ==
    IF d.rd >= Len(in)
    THEN [d |-> d, r |-> None, raw |-> TRUE, io |-> NoIoError]
    ELSE IF in[d.rd + 1] \in {Interrupted, IoFailure}
    THEN [d |-> [d EXCEPT !.rd = @ + 1], r |-> None, raw |-> TRUE, io |-> IoError(d.file)]
    ELSE [d |-> [d EXCEPT !.rd = @ + 1], r |-> in[d.rd + 1], raw |-> TRUE, io |-> NoIoError]

\* The loop of read_byte_raw.  d.rd counts the reads the source has
\* answered; its answers are the elements of in, and Ok(0) after them.
\* raw: the call read the byte source (read_byte_raw ran); io: the error
\* returned.
RECURSIVE ReadByteRaw(_, _)
ReadByteRaw(in, d) ==
    IF d.rd >= Len(in)
    THEN [d |-> d, r |-> None, raw |-> TRUE, io |-> NoIoError]
    ELSE IF in[d.rd + 1] = Interrupted
    THEN ReadByteRaw(in, [d EXCEPT !.rd = @ + 1])
    ELSE IF in[d.rd + 1] = IoFailure
    THEN [d |-> [d EXCEPT !.rd = @ + 1], r |-> None, raw |-> TRUE, io |-> IoError(d.file)]
    ELSE [d |-> [d EXCEPT !.rd = @ + 1], r |-> in[d.rd + 1], raw |-> TRUE, io |-> NoIoError]

\* read_byte without the arm for the LF of a CR+LF pair: every CR and every
\* LF is a line break.
TrackPosition_LfAfterCrCounts(d, byte) ==
    LET moved ==
            IF byte = CR \/ byte = LF THEN [d EXCEPT !.line = @ + 1, !.column = 1]
            ELSE IF byte = TAB THEN [d EXCEPT !.column = @ + 8]
            ELSE IF (byte >= 0 /\ byte <= 31) \/ byte = DEL THEN d
            ELSE [d EXCEPT !.column = @ + 1]
    IN [moved EXCEPT !.last_byte = byte]

\* read_byte without the arm for tabs: a tab has no width, as the other
\* control bytes.
TrackPosition_TabIsControl(d, byte) ==
    LET moved ==
            IF d.last_byte = CR /\ byte = LF THEN d
            ELSE IF byte = CR \/ byte = LF THEN [d EXCEPT !.line = @ + 1, !.column = 1]
            ELSE IF (byte >= 0 /\ byte <= 31) \/ byte = DEL THEN d
            ELSE [d EXCEPT !.column = @ + 1]
    IN [moved EXCEPT !.last_byte = byte]

\* The match on (last_byte, byte) of read_byte.
TrackPosition(d, byte) ==
    LET moved ==
            IF d.last_byte = CR /\ byte = LF THEN d
            ELSE IF byte = CR \/ byte = LF THEN [d EXCEPT !.line = @ + 1, !.column = 1]
            ELSE IF byte = TAB THEN [d EXCEPT !.column = @ + 8]
            ELSE IF (byte >= 0 /\ byte <= 31) \/ byte = DEL THEN d
            ELSE [d EXCEPT !.column = @ + 1]
    IN [moved EXCEPT !.last_byte = byte]

\* read_byte that drops a pending look-ahead byte and reads a new one.
ReadByte_PeekedDropped(in, d) ==
    IF d.reached_eof THEN [d |-> d, r |-> None, raw |-> FALSE, io |-> NoIoError]
    ELSE LET got == ReadByteRaw(in, [d EXCEPT !.peeked_byte = None])
         IN IF got.io # NoIoError THEN got
            ELSE IF got.r # None
            THEN [d |-> TrackPosition(got.d, got.r), r |-> got.r, raw |-> got.raw, io |-> NoIoError]
            ELSE [d |-> [got.d EXCEPT !.reached_eof = TRUE, !.last_byte = 0], r |-> None,
                  raw |-> got.raw, io |-> NoIoError]

\* read_byte that takes the end of input for a line ending and puts the
\* column back to 1.
ReadByte_EofResetsColumn(in, d) ==
    IF d.reached_eof THEN [d |-> d, r |-> None, raw |-> FALSE, io |-> NoIoError]
    ELSE LET got == IF d.peeked_byte # None
                    THEN [d |-> [d EXCEPT !.peeked_byte = None], r |-> d.peeked_byte,
                          raw |-> FALSE, io |-> NoIoError]
                    ELSE ReadByteRaw(in, d)
         IN IF got.io # NoIoError THEN got
            ELSE IF got.r # None
            THEN [d |-> TrackPosition(got.d, got.r), r |-> got.r, raw |-> got.raw, io |-> NoIoError]
            ELSE [d |-> [got.d EXCEPT !.reached_eof = TRUE, !.last_byte = 0, !.column = 1],
                  r |-> None, raw |-> got.raw, io |-> NoIoError]

ReadByte(in, d) ==
    IF d.reached_eof THEN [d |-> d, r |-> None, raw |-> FALSE, io |-> NoIoError]
    ELSE LET got == IF d.peeked_byte # None
                    THEN [d |-> [d EXCEPT !.peeked_byte = None], r |-> d.peeked_byte,
                          raw |-> FALSE, io |-> NoIoError]
                    ELSE ReadByteRaw(in, d)
         IN IF got.io # NoIoError THEN got
            ELSE IF got.r # None
            THEN [d |-> TrackPosition(got.d, got.r), r |-> got.r, raw |-> got.raw, io |-> NoIoError]
            ELSE [d |-> [got.d EXCEPT !.reached_eof = TRUE, !.last_byte = 0], r |-> None,
                  raw |-> got.raw, io |-> NoIoError]

\* peek_byte that does not keep the byte it read.
PeekByte_NotKept(in, d) ==
    IF d.reached_eof THEN [d |-> d, r |-> None, raw |-> FALSE, io |-> NoIoError]
    ELSE IF d.peeked_byte # None THEN [d |-> d, r |-> d.peeked_byte, raw |-> FALSE, io |-> NoIoError]
    ELSE ReadByteRaw(in, d)

\* peek_byte without the early return at the end of input.
PeekByte_NoEofCheck(in, d) ==
    IF d.peeked_byte # None THEN [d |-> d, r |-> d.peeked_byte, raw |-> FALSE, io |-> NoIoError]
    ELSE LET got == ReadByteRaw(in, d)
         IN IF got.io # NoIoError THEN got
            ELSE [d |-> [got.d EXCEPT !.peeked_byte = got.r], r |-> got.r, raw |-> got.raw,
                  io |-> NoIoError]

PeekByte(in, d) ==
    IF d.reached_eof THEN [d |-> d, r |-> None, raw |-> FALSE, io |-> NoIoError]
    ELSE IF d.peeked_byte # None THEN [d |-> d, r |-> d.peeked_byte, raw |-> FALSE, io |-> NoIoError]
    ELSE LET got == ReadByteRaw(in, d)
         IN IF got.io # NoIoError THEN got
            ELSE [d |-> [got.d EXCEPT !.peeked_byte = got.r], r |-> got.r, raw |-> got.raw,
                  io |-> NoIoError]

(***************************************************************************)
(* parser_io.rs: fill_buf                                                  *)
(***************************************************************************)
\* u8::is_ascii_whitespace
IsAsciiWhitespace(b) == b \in {SP, TAB, LF, FF, CR}

RECURSIVE FillLoop(_, _, _, _, _, _)
FillLoop(in, d, delimiters, in_comment, seen_non_whitespace, started_at_start_of_line) ==
    LET prev_column == d.column
        rb == ReadByte(in, d)
        byte == rb.r
        d1 == rb.d
    IN IF rb.io # NoIoError
       THEN [d |-> d1, res |-> "Err", delim |-> None, io |-> rb.io]
       ELSE IF byte # None
       THEN IF byte = HASH /\ (prev_column = 1 \/ (started_at_start_of_line /\ ~seen_non_whitespace))
            THEN FillLoop(in, [d1 EXCEPT !.buf_b = <<>>], delimiters, TRUE,
                          seen_non_whitespace, started_at_start_of_line)
            ELSE IF in_comment /\ byte # CR /\ byte # LF
            THEN FillLoop(in, d1, delimiters, in_comment, seen_non_whitespace,
                          started_at_start_of_line)
            ELSE IF byte = CR \/ byte = LF
            THEN IF in_comment
                 THEN FillLoop(in, d1, delimiters, FALSE, seen_non_whitespace,
                               started_at_start_of_line)
                 ELSE IF prev_column = 1
                 THEN FillLoop(in, d1, delimiters, in_comment, seen_non_whitespace,
                               started_at_start_of_line)
                 ELSE IF started_at_start_of_line /\ ~seen_non_whitespace
                 THEN FillLoop(in, [d1 EXCEPT !.buf_b = <<>>], delimiters, in_comment,
                               seen_non_whitespace, started_at_start_of_line)
                 ELSE [d |-> d1, res |-> "FoundEol", delim |-> None, io |-> NoIoError]
            ELSE IF byte \in delimiters
            THEN [d |-> d1, res |-> "FoundDelim", delim |-> byte, io |-> NoIoError]
            ELSE FillLoop(in, [d1 EXCEPT !.buf_b = Append(@, byte)], delimiters, in_comment,
                          seen_non_whitespace \/ ~IsAsciiWhitespace(byte),
                          started_at_start_of_line)
       ELSE [d |-> IF ~seen_non_whitespace THEN [d1 EXCEPT !.buf_b = <<>>] ELSE d1,
             res |-> "FoundEof", delim |-> None, io |-> NoIoError]

\* fill_buf that pushes the delimiter it found.
KeepDelimiter(f) ==
    IF f.res = "FoundDelim" THEN [f EXCEPT !.d.buf_b = Append(@, f.delim)] ELSE f

FillBuf_DelimiterKept(in, d, delimiters) ==
    KeepDelimiter(FillLoop(in, [d EXCEPT !.buf_b = <<>>], delimiters, FALSE, FALSE, d.column = 1))

FillBuf(in, d, delimiters) ==
    FillLoop(in, [d EXCEPT !.buf_b = <<>>], delimiters, FALSE, FALSE, d.column = 1)

(***************************************************************************)
(* parser_io.rs: decode_buf_all.  Windows-1252 (the WHATWG index the       *)
(* encoding crate uses): bytes below 0x80 and from 0xA0 up map to the code *)
(* point of the same number, 0x80..0x9F through the table.                 *)
(***************************************************************************)
Windows1252High ==
    <<8364, 129, 8218, 402, 8222, 8230, 8224, 8225, 710, 8240, 352, 8249, 338, 141, 381, 143,
      144, 8216, 8217, 8220, 8221, 8226, 8211, 8212, 732, 8482, 353, 8250, 339, 157, 382, 376>>

DecodeByte(b) == IF b >= 128 /\ b < 160 THEN Windows1252High[b - 127] ELSE b

DecodeBytes(bs) == [i \in 1..Len(bs) |-> DecodeByte(bs[i])]

DecodeBufAll(d) == [d EXCEPT !.buf_s = DecodeBytes(d.buf_b)]

(***************************************************************************)
(* deser_value.rs: AaValueDeserializer.  Every handler returns the cursor, *)
(* the visitor call it made and the error it raised (NoError if none).     *)
(***************************************************************************)
Delivered(d, val) == [d |-> d, val |-> val, err |-> NoError]

Failed(d, kind, line, column) ==
    [d |-> d, val |-> VUnit, err |-> [kind |-> kind, line |-> line, column |-> column]]

FillBufAuto(in, d, inside_seq) == FillBuf(in, d, IF inside_seq THEN {PIPE} ELSE {})

\* visitor.visit_str(&self.de.buf_s[..])
VisitStr(d) == Delivered(d, VStr(d.buf_s))

DeserializeStr(in, d, inside_seq) ==
    VisitStr(DecodeBufAll(FillBufAuto(in, d, inside_seq).d))

\* <u8 as FromStr>::from_str on the decoded text: None when it does not parse.
RECURSIVE DigitsValue(_)
DigitsValue(s) ==
    IF s = <<>> THEN 0 ELSE 10 * DigitsValue(SubSeq(s, 1, Len(s) - 1)) + (s[Len(s)] - DIGIT0)

DigitsOf(s) == IF s # <<>> /\ s[1] = PLUS THEN Tail(s) ELSE s

ParseU8(s) ==
    IF /\ DigitsOf(s) # <<>>
       /\ \A i \in 1..Len(DigitsOf(s)) : DigitsOf(s)[i] >= DIGIT0 /\ DigitsOf(s)[i] <= DIGIT9
       /\ DigitsValue(DigitsOf(s)) <= 255
    THEN DigitsValue(DigitsOf(s))
    ELSE None

\* visitor.visit_u8(from_str(buf_s).map_err(|error| InvalidInt { error, pos })?)
VisitU8(d, n, pos_line, pos_column) ==
    IF n = None THEN Failed(d, "InvalidInt", pos_line, pos_column) ELSE Delivered(d, VInt(n))

FromStrU8(d, pos_line, pos_column) == VisitU8(d, ParseU8(d.buf_s), pos_line, pos_column)

FromStrU8Here(d) == FromStrU8(d, d.line, d.column)

\* deserialize_u8 with the position read after the token was filled, not before.
DeserializeU8_PositionAfterFill(in, d, inside_seq) ==
    FromStrU8Here(DecodeBufAll(FillBufAuto(in, d, inside_seq).d))

\* deserialize_with_from_str!(deserialize_u8, visit_u8, InvalidInt): start_pos
\* is the cursor's position before fill_buf_auto.
DeserializeU8(in, d, inside_seq) ==
    FromStrU8(DecodeBufAll(FillBufAuto(in, d, inside_seq).d), d.line, d.column)

\* deserialize_char that fails unless the text is one character.
VisitCharOrStr_OneCharOrError(d) ==
    IF Len(d.buf_s) = 1
    THEN Delivered(d, VChar(d.buf_s[1]))
    ELSE Failed(d, "Other", d.line, d.column)

\* The match of deserialize_char on the first two chars of the decoded text:
\* visit_char if there is exactly one, visit_str otherwise.
VisitCharOrStr(d) ==
    IF Len(d.buf_s) = 1
    THEN Delivered(d, VChar(d.buf_s[1]))
    ELSE Delivered(d, VStr(d.buf_s))

DeserializeChar(in, d, inside_seq) ==
    VisitCharOrStr(DecodeBufAll(FillBufAuto(in, d, inside_seq).d))

\* The branch of deserialize_unit on the filled buffer; deserialize_any is
\* deserialize_str, which fills the buffer once more.
UnitOrAny(in, d, inside_seq) ==
    IF d.buf_b = <<>> THEN Delivered(d, VUnit) ELSE DeserializeStr(in, d, inside_seq)

DeserializeUnit(in, d, inside_seq) == UnitOrAny(in, FillBufAuto(in, d, inside_seq).d, inside_seq)

DeserializeIgnoredAny(in, d, inside_seq) == Delivered(d, VUnit)

RECURSIVE Deserialize(_, _, _, _)
RECURSIVE VisitSeq(_, _, _, _, _, _, _)

\* visitor.visit_some(self)
VisitSome(r) == [r EXCEPT !.val = VSome(r.val)]

\* deserialize_option that takes only the end of input for an absent value,
\* not a line ending.
NoneOnlyAtEof(in, p, inside_seq, inner) ==
    IF p.r = None
    THEN Delivered(p.d, VNone)
    ELSE VisitSome(Deserialize(in, p.d, inside_seq, inner))

DeserializeOption_NoneOnlyAtEof(in, d, inside_seq, inner) ==
    NoneOnlyAtEof(in, PeekByte(in, d), inside_seq, inner)

\* The match of deserialize_option on the peeked byte p.r.
NoneOrSome(in, p, inside_seq, inner) ==
    IF p.r \in {None, CR, LF}
    THEN Delivered(p.d, VNone)
    ELSE VisitSome(Deserialize(in, p.d, inside_seq, inner))

DeserializeOption(in, d, inside_seq, inner) ==
    NoneOrSome(in, PeekByte(in, d), inside_seq, inner)

\* Results of next_element_seed.  end: Ok(None) was returned.
EndOfSeq(d) == [d |-> d, end |-> TRUE, val |-> VUnit, err |-> NoError]

Element(r) == [d |-> r.d, end |-> FALSE, val |-> r.val, err |-> r.err]

\* The last disjunct of next_element_seed's condition, on the peeked byte p.r.
FirstElement(in, p, eshape) ==
    IF p.r \in {None, CR, LF}
    THEN EndOfSeq(p.d)
    ELSE Element(Deserialize(in, p.d, TRUE, eshape))

\* AaValueSeqAccess::next_element_seed
NextElementSeed(in, d, is_first_element, is_nested_seq, eshape) ==
    IF (is_nested_seq /\ ~is_first_element) \/ d.column = 1 \/ d.reached_eof
    THEN EndOfSeq(d)
    ELSE IF is_first_element
    THEN FirstElement(in, PeekByte(in, d), eshape)
    ELSE Element(Deserialize(in, d, TRUE, eshape))

\* The consumer's visit_seq: next_element until end of sequence or error.
\* more: calls the caller still follows; when they run out the loop is
\* reported as not finished (fin = FALSE).  VisitSeqOn is the loop's body on
\* the result e of next_element.
RECURSIVE VisitSeqOn(_, _, _, _, _, _)
VisitSeqOn(in, e, is_nested_seq, eshape, acc, more) ==
    IF e.end THEN [d |-> e.d, val |-> VSeq(acc), err |-> NoError, fin |-> TRUE]
    ELSE IF e.err # NoError THEN [d |-> e.d, val |-> VSeq(acc), err |-> e.err, fin |-> TRUE]
    ELSE VisitSeq(in, e.d, FALSE, is_nested_seq, eshape,
                  IF Len(acc) < MaxElems THEN Append(acc, e.val) ELSE acc, more - 1)

VisitSeq(in, d, is_first_element, is_nested_seq, eshape, acc, more) ==
    IF more = 0
    THEN [d |-> d, val |-> VSeq(acc), err |-> NoError, fin |-> FALSE]
    ELSE VisitSeqOn(in, NextElementSeed(in, d, is_first_element, is_nested_seq, eshape),
                    is_nested_seq, eshape, acc, more)

\* deserialize_seq followed by the visitor's loop.
DeserializeSeq(in, d, inside_seq, eshape) ==
    VisitSeq(in, d, TRUE, inside_seq, eshape, <<>>, MaxElems + 1)

Deserialize(in, d, inside_seq, shape) ==
    CASE Head(shape) = "str" -> DeserializeStr(in, d, inside_seq)
      [] Head(shape) = "u8" -> DeserializeU8(in, d, inside_seq)
      [] Head(shape) = "char" -> DeserializeChar(in, d, inside_seq)
      [] Head(shape) = "unit" -> DeserializeUnit(in, d, inside_seq)
      [] Head(shape) = "ign" -> DeserializeIgnoredAny(in, d, inside_seq)
      [] Head(shape) = "opt" -> DeserializeOption(in, d, inside_seq, Tail(shape))
      [] Head(shape) = "seq" -> DeserializeSeq(in, d, inside_seq, Tail(shape))

(***************************************************************************)
(* deser_toplevel.rs: AaTopMapAccess                                       *)
(***************************************************************************)
\* The loop of next_key_seed that skips the rest of the current line.
RECURSIVE SkipLine(_, _)
SkipLine(in, d) ==
    IF ReadByte(in, d).r = None THEN [d |-> ReadByte(in, d).d, eof |-> TRUE]
    ELSE IF ReadByte(in, d).r \in {CR, LF} THEN [d |-> ReadByte(in, d).d, eof |-> FALSE]
    ELSE SkipLine(in, ReadByte(in, d).d)

\* Results of next_key_seed.  has_key = FALSE: Ok(None) was returned, and the
\* flag no_value is as it was.
NoKey(d, no_value) == [d |-> d, has_key |-> FALSE, key |-> <<>>, no_value |-> no_value]

SomeKey(d, no_value) == [d |-> d, has_key |-> TRUE, key |-> d.buf_s, no_value |-> no_value]

\* The space after the delimiter: peeked (p), and consumed if it is one.
StripSpace(in, p) == IF p.r = SP THEN ReadByte(in, p.d).d ELSE p.d

\* next_key_seed without the arm for FoundEof with an empty buffer: the end
\* of input is taken for a key with no value.
KeyOfFill_EofIsKey(in, f, no_value) ==
    IF f.res = "FoundDelim"
    THEN SomeKey(DecodeBufAll(StripSpace(in, PeekByte(in, f.d))), FALSE)
    ELSE SomeKey(DecodeBufAll(f.d), TRUE)

\* The match of next_key_seed on the outcome f of fill_buf(&[b':']).
KeyOfFill(in, f, no_value) ==
    IF f.res = "FoundDelim"
    THEN SomeKey(DecodeBufAll(StripSpace(in, PeekByte(in, f.d))), FALSE)
    ELSE IF f.res = "FoundEof" /\ f.d.buf_b = <<>>
    THEN NoKey(f.d, no_value)
    ELSE SomeKey(DecodeBufAll(f.d), TRUE)

KeyAfterSkip(in, skipped, no_value) ==
    IF skipped.eof
    THEN NoKey(skipped.d, no_value)
    ELSE KeyOfFill(in, FillBuf(in, skipped.d, {COLON}), no_value)

NextKeySeed(in, d, no_value) ==
    KeyAfterSkip(in, IF d.column # 1 THEN SkipLine(in, d) ELSE [d |-> d, eof |-> FALSE], no_value)

\* ().into_deserializer(): serde's UnitDeserializer answers every request with
\* visit_unit, except deserialize_option, which it answers with visit_none.
UnitDeserializer(d, shape) ==
    Delivered(d, IF Head(shape) = "opt" THEN VNone ELSE VUnit)

NextValueSeed(in, d, no_value, shape) ==
    IF no_value THEN UnitDeserializer(d, shape) ELSE Deserialize(in, d, FALSE, shape)

(***************************************************************************)
(* de.rs: from_bytes, with the consumer's visit_map loop: next_key, then   *)
(* next_value, until there is no key or an error.  end is "done", "err",   *)
(* or "open" when the calls the caller follows ran out.                    *)
(***************************************************************************)
Entry(k, val, nv) == [key |-> k, val |-> val, no_value |-> nv]

Finite(r) == [d |-> r.d, val |-> r.val, err |-> r.err, fin |-> TRUE]

RECURSIVE VisitMap(_, _, _, _, _, _)

\* The loop's body on the value v decoded for the key k.
VisitMapOnValue(in, k, v, shape, acc, more) ==
    IF ~v.fin THEN [out |-> acc, end |-> "open", err |-> NoError]
    ELSE IF v.err # NoError THEN [out |-> acc, end |-> "err", err |-> v.err]
    ELSE VisitMap(in, v.d, k.no_value, shape, Append(acc, Entry(k.key, v.val, k.no_value)),
                  more - 1)

\* The loop's body on the result k of next_key.
VisitMapOnKey(in, k, shape, acc, more) ==
    IF ~k.has_key THEN [out |-> acc, end |-> "done", err |-> NoError]
    ELSE IF ~k.no_value /\ Head(shape) = "seq"
    THEN VisitMapOnValue(in, k, VisitSeq(in, k.d, TRUE, FALSE, Tail(shape), <<>>, MaxElems + 1),
                         shape, acc, more)
    ELSE VisitMapOnValue(in, k, Finite(NextValueSeed(in, k.d, k.no_value, shape)),
                         shape, acc, more)

VisitMap(in, d, no_value, shape, acc, more) ==
    IF more = 0 THEN [out |-> acc, end |-> "open", err |-> NoError]
    ELSE VisitMapOnKey(in, NextKeySeed(in, d, no_value), shape, acc, more)

FromBytes(in, shape) == VisitMap(in, NewDeserializer, FALSE, shape, <<>>, Len(in) + 1)

(***************************************************************************)
(* The decode as a state machine: the consumer's calls, one action each.   *)
(***************************************************************************)
VARIABLES
    input,             \* the bytes of the reader
    shape,             \* the shape the consumer requests for every value
    de,                \* struct Deserializer
    no_value,          \* AaTopMapAccess::no_value
    pc,                \* the call the consumer makes next: "key", "value", "elem"; "done", "err"
    key,               \* the key next_key returned last
    is_first_element,  \* AaValueSeqAccess::is_first_element of the top-level sequence
    elems,             \* the elements the consumer has collected for that sequence
    out,               \* the entries decoded so far
    err,               \* the error that aborted the decode
    returned,          \* the bytes the scanner's user got from its read_byte calls
    call               \* the scanner call its user made last, with its result

vars ==
    <<input, shape, de, no_value, pc, key, is_first_element, elems, out, err, returned, call>>

\* No scanner call yet.  op: the method; r: the byte it returned (for
\* fill_buf the delimiter found); raw: it read the byte source; delimiters and
\* res: the argument and the outcome of fill_buf.
NoCall ==
    [op |-> "none", r |-> None, raw |-> FALSE, delimiters |-> {}, res |-> "none",
     io |-> NoIoError]

Init ==
    /\ input \in Inputs
    /\ shape \in Shapes
    /\ de = NewDeserializer
    /\ no_value = FALSE
    /\ pc = "key"
    /\ key = <<>>
    /\ is_first_element = FALSE
    /\ elems = <<>>
    /\ out = <<>>
    /\ err = NoError
    /\ returned = <<>>
    /\ call = NoCall

\* The consumer takes the result r of next_key.
KeyReturned(r) ==
    /\ de' = r.d
    /\ no_value' = r.no_value
    /\ key' = IF r.has_key THEN r.key ELSE key
    /\ pc' = IF r.has_key THEN "value" ELSE "done"

\* MapAccess::next_key
NextKey ==
    /\ pc = "key"
    /\ KeyReturned(NextKeySeed(input, de, no_value))
    /\ UNCHANGED <<input, shape, is_first_element, elems, out, err, returned, call>>

\* The consumer takes the result r of next_value.
ValueReturned(r) ==
    /\ de' = r.d
    /\ err' = r.err
    /\ out' = IF r.err = NoError THEN Append(out, Entry(key, r.val, no_value)) ELSE out
    /\ pc' = IF r.err = NoError THEN "key" ELSE "err"

\* MapAccess::next_value.  A sequence requested of AaValueDeserializer only
\* creates the AaValueSeqAccess; the visitor then pulls the elements.
NextValue ==
    /\ pc = "value"
    /\ IF ~no_value /\ Head(shape) = "seq"
       THEN /\ is_first_element' = TRUE
            /\ elems' = <<>>
            /\ pc' = "elem"
            /\ UNCHANGED <<de, out, err>>
       ELSE /\ ValueReturned(NextValueSeed(input, de, no_value, shape))
            /\ UNCHANGED <<is_first_element, elems>>
    /\ UNCHANGED <<input, shape, no_value, key, returned, call>>

\* The consumer takes the result r of next_element: at the end of the
\* sequence its value is complete and next_value returns.
ElementReturned(r) ==
    /\ de' = r.d
    /\ err' = r.err
    /\ IF r.end
       THEN /\ out' = Append(out, Entry(key, VSeq(elems), no_value))
            /\ pc' = "key"
            /\ UNCHANGED <<is_first_element, elems>>
       ELSE /\ is_first_element' = FALSE
            /\ elems' = IF r.err = NoError /\ Len(elems) < MaxElems
                        THEN Append(elems, r.val) ELSE elems
            /\ pc' = IF r.err = NoError THEN "elem" ELSE "err"
            /\ UNCHANGED out

\* SeqAccess::next_element on the top-level sequence
NextElement ==
    /\ pc = "elem"
    /\ ElementReturned(NextElementSeed(input, de, is_first_element, FALSE, Tail(shape)))
    /\ UNCHANGED <<input, shape, no_value, key, returned, call>>

Next == NextKey \/ NextValue \/ NextElement

Spec == Init /\ [][Next]_vars

(***************************************************************************)
(* The decode of the inputs that begin with an entry of the empty key: a   *)
(* ':' and then any bytes of Inputs, so that up to MaxLen bytes follow the *)
(* first key.                                                              *)
(***************************************************************************)
InputsAfterColon == {<<COLON>> \o rest : rest \in Inputs}

InitAfterColon ==
    /\ input \in InputsAfterColon
    /\ shape \in Shapes
    /\ de = NewDeserializer
    /\ no_value = FALSE
    /\ pc = "key"
    /\ key = <<>>
    /\ is_first_element = FALSE
    /\ elems = <<>>
    /\ out = <<>>
    /\ err = NoError
    /\ returned = <<>>
    /\ call = NoCall

SpecAfterColon == InitAfterColon /\ [][Next]_vars

(***************************************************************************)
(* The decode with a consumer that goes on calling next_key after it was   *)
(* told that there are no more entries; pc is then "end".                  *)
(***************************************************************************)
\* The consumer takes the result r of a further next_key.
KeyReturnedAtEnd(r) ==
    /\ de' = r.d
    /\ no_value' = r.no_value
    /\ key' = IF r.has_key THEN r.key ELSE key
    /\ pc' = IF r.has_key THEN "value" ELSE "end"

\* MapAccess::next_key, called after it has returned None
NextKeyAtEnd ==
    /\ pc \in {"done", "end"}
    /\ KeyReturnedAtEnd(NextKeySeed(input, de, no_value))
    /\ UNCHANGED <<input, shape, is_first_element, elems, out, err, returned, call>>

NextWithEnd == NextKey \/ NextValue \/ NextElement \/ NextKeyAtEnd

SpecWithEnd == Init /\ [][NextWithEnd]_vars

(***************************************************************************)
(* The scanner on its own: a user of the cursor that calls read_byte,      *)
(* peek_byte and fill_buf in any order.                                    *)
(***************************************************************************)
\* The delimiter sets the engine passes to fill_buf.
DelimiterSets == {{}, {COLON}, {PIPE}}

InitIO ==
    /\ input \in Inputs
    /\ shape = <<"str">>
    /\ de = NewDeserializer
    /\ no_value = FALSE
    /\ pc = "io"
    /\ key = <<>>
    /\ is_first_element = FALSE
    /\ elems = <<>>
    /\ out = <<>>
    /\ err = NoError
    /\ returned = <<>>
    /\ call = NoCall

\* The user takes the result r of read_byte.
ReadReturned(r) ==
    /\ de' = r.d
    /\ returned' = IF r.r # None THEN Append(returned, r.r) ELSE returned
    /\ call' = [op |-> "read_byte", r |-> r.r, raw |-> r.raw, delimiters |-> {},
                res |-> "none", io |-> r.io]

\* Deserializer::read_byte
ReadByteCall ==
    /\ pc = "io"
    /\ ReadReturned(ReadByte(input, de))
    /\ UNCHANGED <<input, shape, no_value, pc, key, is_first_element, elems, out, err>>

\* The user takes the result r of peek_byte.
PeekReturned(r) ==
    /\ de' = r.d
    /\ call' = [op |-> "peek_byte", r |-> r.r, raw |-> r.raw, delimiters |-> {},
                res |-> "none", io |-> r.io]

\* Deserializer::peek_byte
PeekByteCall ==
    /\ pc = "io"
    /\ PeekReturned(PeekByte(input, de))
    /\ UNCHANGED <<input, shape, no_value, pc, key, is_first_element, elems, out, err, returned>>

\* The user takes the outcome f of fill_buf(delimiters).
FillReturned(f, delimiters) ==
    /\ de' = f.d
    /\ call' = [op |-> "fill_buf", r |-> f.delim, raw |-> FALSE, delimiters |-> delimiters,
                res |-> f.res, io |-> f.io]

\* Deserializer::fill_buf
FillBufCall ==
    /\ pc = "io"
    /\ \E delimiters \in DelimiterSets : FillReturned(FillBuf(input, de, delimiters), delimiters)
    /\ UNCHANGED <<input, shape, no_value, pc, key, is_first_element, elems, out, err, returned>>

NextIO == ReadByteCall \/ PeekByteCall

SpecIO == InitIO /\ [][NextIO]_vars

NextFill == ReadByteCall \/ PeekByteCall \/ FillBufCall

SpecFill == InitIO /\ [][NextFill]_vars

(***************************************************************************)
(* The input grammar, read off the input bytes alone: physical lines, the  *)
(* lines that are entries, and the key and value text of an entry line.    *)
(***************************************************************************)
RECURSIVE SplitLines(_, _, _, _)
SplitLines(in, i, cur, acc) ==
    IF i > Len(in) THEN (IF cur = <<>> THEN acc ELSE Append(acc, cur))
    ELSE IF in[i] = CR /\ i < Len(in) /\ in[i + 1] = LF
    THEN SplitLines(in, i + 2, <<>>, Append(acc, cur))
    ELSE IF in[i] = CR \/ in[i] = LF
    THEN SplitLines(in, i + 1, <<>>, Append(acc, cur))
    ELSE SplitLines(in, i + 1, Append(cur, in[i]), acc)

PhysicalLines(in) == SplitLines(in, 1, <<>>, <<>>)

IsBlankLine(l) == \A i \in 1..Len(l) : IsAsciiWhitespace(l[i])

IsCommentLine(l) ==
    \E j \in 1..Len(l) : l[j] = HASH /\ \A i \in 1..(j - 1) : IsAsciiWhitespace(l[i])

IsEntryLine(l) == ~IsBlankLine(l) /\ ~IsCommentLine(l)

EntryLines(in) == SelectSeq(PhysicalLines(in), IsEntryLine)

HasColon(l) == \E i \in 1..Len(l) : l[i] = COLON

FirstColon(l) == CHOOSE i \in 1..Len(l) : l[i] = COLON /\ \A j \in 1..(i - 1) : l[j] # COLON

KeyOf(l) == IF HasColon(l) THEN SubSeq(l, 1, FirstColon(l) - 1) ELSE l

\* The value text: what follows the first ':' and the one separator space.
TextOf(l) ==
    LET rest == SubSeq(l, FirstColon(l) + 1, Len(l))
    IN IF rest # <<>> /\ rest[1] = SP THEN Tail(rest) ELSE rest

IsInfix(s, t) == \E a \in 0..(Len(t) - Len(s)) : SubSeq(t, a + 1, a + Len(s)) = s

Finished == pc = "done"

\* C1: with every value requested as a string, the decode yields one entry
\* per entry line of the input, in file order; each key is that line's bytes
\* before its first ':' (the whole line without one), and each value is made
\* of bytes of that one line.
C1_OneEntryPerLine ==
    (Finished /\ shape = <<"str">>) =>
        LET lines == EntryLines(input)
        IN /\ Len(out) = Len(lines)
           /\ \A i \in 1..Len(lines) :
                /\ out[i].key = DecodeBytes(KeyOf(lines[i]))
                /\ out[i].val.t = "str" => IsInfix(out[i].val.v, DecodeBytes(lines[i]))

\* The step-by-step decode and the decode run in one go agree.
SameDecode(other) == other.end = "done" /\ other.out = out

StepsAgreeWithFromBytes == Finished => SameDecode(FromBytes(input, shape))

(***************************************************************************)
(* C2                                                                      *)
(***************************************************************************)
\* Lines the grammar ignores: blank, whitespace-only, comment.
IgnoredLines ==
    {<<LF>>, <<CR, LF>>, <<SP, LF>>, <<TAB, LF>>, <<FF, LF>>, <<SP, TAB, FF, LF>>,
     <<HASH, LF>>, <<HASH, DIGIT1, LF>>, <<SP, HASH, COLON, LF>>}

\* Offsets of the input at which a physical line starts (or the input ends
\* after a line break).
LineStarts(in) ==
    {p \in 0..Len(in) :
        \/ p = 0
        \/ in[p] = LF
        \/ in[p] = CR /\ ~(p < Len(in) /\ in[p + 1] = LF)}

InsertAt(in, p, l) == SubSeq(in, 1, p) \o l \o SubSeq(in, p + 1, Len(in))

\* C2: blank-line invariance.  Inserting a blank, whitespace-only or comment
\* line before the first entry, between entries or after the last does not
\* change the keys and values decoded.
C2_BlankLineInvariance ==
    Finished =>
        \A p \in LineStarts(input) : \A l \in IgnoredLines :
            SameDecode(FromBytes(InsertAt(input, p, l), shape))

(***************************************************************************)
(* C5                                                                      *)
(***************************************************************************)
EndsWithEntryLine(in) ==
    /\ in # <<>>
    /\ in[Len(in)] \notin {CR, LF}
    /\ IsEntryLine(PhysicalLines(in)[Len(PhysicalLines(in))])

\* C5: a missing trailing line ending changes nothing.  An input whose last
\* line is an entry decodes to the same keys and values with and without the
\* line ending after that line.
C5_FinalEolOptional ==
    (Finished /\ EndsWithEntryLine(input)) =>
        \A eol \in {<<LF>>, <<CR, LF>>} :
            SameDecode(FromBytes(input \o eol, shape))

(***************************************************************************)
(* C3                                                                      *)
(***************************************************************************)
\* C3: sequence iteration terminates.  next_element is a function of the
\* cursor and of the accessor's first-element flag, so the iteration ends
\* exactly if no call that yields an element leaves both as they were: such
\* a call is repeated for ever.
C3_SeqTerminates ==
    [][(pc = "elem" /\ pc' = "elem") =>
          ~(de' = de /\ is_first_element' = is_first_element)]_vars

(***************************************************************************)
(* C4                                                                      *)
(***************************************************************************)
RECURSIVE SplitOn(_, _, _, _)
SplitOn(s, sep, cur, acc) ==
    IF s = <<>> THEN Append(acc, cur)
    ELSE IF Head(s) = sep THEN SplitOn(Tail(s), sep, <<>>, Append(acc, cur))
    ELSE SplitOn(Tail(s), sep, Append(cur, Head(s)), acc)

Count(s, b) == Cardinality({i \in 1..Len(s) : s[i] = b})

KeysAsInInput ==
    /\ Len(out) = Len(EntryLines(input))
    /\ \A i \in 1..Len(out) : out[i].key = DecodeBytes(KeyOf(EntryLines(input)[i]))

\* C4: a value requested as a sequence of strings whose text holds n >= 1
\* '|' bytes decodes to the n+1 substrings between them, empty ones included,
\* whatever ends the line.  (Stated of the decodes whose keys are those of
\* the input's entry lines.)
C4_SeqSplitsOnPipe ==
    (Finished /\ shape = <<"seq", "str">> /\ KeysAsInInput) =>
        \A i \in 1..Len(out) :
            LET l == EntryLines(input)[i]
            IN (HasColon(l) /\ Count(TextOf(l), PIPE) >= 1) =>
                 LET parts == SplitOn(TextOf(l), PIPE, <<>>, <<>>)
                 IN out[i].val = VSeq([j \in 1..Len(parts) |-> VStr(DecodeBytes(parts[j]))])

(***************************************************************************)
(* C6                                                                      *)
(***************************************************************************)
\* '#' bytes of a physical line that follow a non-whitespace byte of it;
\* none in a comment line, whose text is no token.
DataHashes(l) ==
    IF IsCommentLine(l) THEN 0
    ELSE Cardinality({j \in 1..Len(l) :
            l[j] = HASH /\ \E i \in 1..(j - 1) : ~IsAsciiWhitespace(l[i])})

RECURSIVE SumOver(_, _)
SumOver(f, n) == IF n = 0 THEN 0 ELSE f[n] + SumOver(f, n - 1)

HashesDecoded ==
    SumOver([i \in 1..Len(out) |-> Count(out[i].key, HASH) + Count(out[i].val.v, HASH)],
            Len(out))

\* C6: a '#' starts a comment only as the first byte of its line or after
\* nothing but whitespace; a '#' that follows a non-whitespace byte on its
\* line is data.  With string values every such '#' is therefore in some
\* decoded key or value.
C6_HashAfterTextIsData ==
    (Finished /\ shape = <<"str">>) =>
        LET lines == PhysicalLines(input)
        IN HashesDecoded >= SumOver([i \in 1..Len(lines) |-> DataHashes(lines[i])], Len(lines))

(***************************************************************************)
(* C7                                                                      *)
(***************************************************************************)
\* C7: an entry line with no ':' yields its key with no value (the flag set,
\* unit delivered), and the entry on the following line is decoded normally.
C7_KeyWithoutValue ==
    (Finished /\ shape = <<"str">>) =>
        LET lines == EntryLines(input)
        IN \A i \in 1..Len(lines) :
              ~HasColon(lines[i]) =>
                 /\ i <= Len(out)
                 /\ out[i] = Entry(DecodeBytes(lines[i]), VUnit, TRUE)
                 /\ i < Len(lines) =>
                      /\ i + 1 <= Len(out)
                      /\ out[i + 1].key = DecodeBytes(KeyOf(lines[i + 1]))

(***************************************************************************)
(* C8                                                                      *)
(***************************************************************************)
\* Bytes the cursor has consumed: those fetched, less the one held ahead.
Consumed(d) == d.rd - (IF d.peeked_byte # None THEN 1 ELSE 0)

\* The text ahead of the cursor, up to the next byte of stops, line ending
\* or end of input.
RECURSIVE TextAhead(_, _, _)
TextAhead(in, n, stops) ==
    IF n >= Len(in) \/ in[n + 1] \in ({CR, LF} \cup stops) THEN <<>>
    ELSE <<in[n + 1]>> \o TextAhead(in, n + 1, stops)

EmptyValueAhead == pc = "value" /\ ~no_value /\ TextAhead(input, Consumed(de), {}) = <<>>

\* What next_value gives for a line that is a key alone.
KeyAloneResult == Append(out, Entry(key, UnitDeserializer(de, shape).val, FALSE))

\* C8 as claimed: for every shape, 'k:' or 'k: ' followed by a line ending or
\* the end of input gives from next_value what the line 'k' gives.
C8_EmptyValueIsNoValue ==
    [][EmptyValueAhead => (pc' = "key" /\ out' = KeyAloneResult)]_vars

UnitLikeShapes == {sh \in Shapes : Head(sh) \in {"unit", "opt", "ign"}}

\* C8 amended: so it is for the unit, optional and ignored shapes.
C8_EmptyValueIsNoValueUnitLike ==
    [][(EmptyValueAhead /\ shape \in UnitLikeShapes) =>
          (pc' = "key" /\ out' = KeyAloneResult)]_vars

\* A key with ':' and nothing after it was decoded as unit, or as absent.
C8_Witness ==
    /\ pc = "key"
    /\ shape \in {<<"unit">>, <<"opt", "str">>}
    /\ KeysAsInInput
    /\ \E i \in 1..Len(out) :
          /\ HasColon(EntryLines(input)[i]) /\ TextOf(EntryLines(input)[i]) = <<>>
          /\ ~out[i].no_value /\ out[i].val \in {VUnit, VNone}

(***************************************************************************)
(* C9                                                                      *)
(***************************************************************************)
\* What the claim expects of an optional value whose content has shape inner.
OptionExpected(inside_seq, inner) ==
    IF TextAhead(input, Consumed(de), IF inside_seq THEN {PIPE} ELSE {}) = <<>>
    THEN VNone
    ELSE VSome(Deserialize(input, de, inside_seq, inner).val)

\* C9: a value requested as optional, at top level or as a sequence element,
\* is absent when it is empty and present otherwise, with the content a
\* non-optional decode gives from the same cursor.
C9_OptionSemantics ==
    [][/\ (pc = "value" /\ ~no_value /\ Head(shape) = "opt" /\ pc' = "key") =>
             out'[Len(out')].val = OptionExpected(FALSE, Tail(shape))
       /\ (pc = "elem" /\ Tail(shape) = <<"opt", "str">> /\ Len(elems') > Len(elems)) =>
             elems'[Len(elems')] = OptionExpected(TRUE, <<"str">>)]_vars

(***************************************************************************)
(* C10                                                                     *)
(***************************************************************************)
\* Column width of a byte, and the position of the byte after the first n
\* bytes of the input, from the input alone.
Width(b) == IF b = TAB THEN 8 ELSE IF (b >= 0 /\ b <= 31) \/ b = DEL THEN 0 ELSE 1

IsBreak(in, i) == in[i] \in {CR, LF} /\ ~(in[i] = LF /\ i > 1 /\ in[i - 1] = CR)

PositionAfter(in, n) ==
    LET lastEol == IF \E i \in 1..n : in[i] \in {CR, LF}
                   THEN CHOOSE i \in 1..n : in[i] \in {CR, LF} /\ \A j \in (i + 1)..n : in[j] \notin {CR, LF}
                   ELSE 0
    IN [line |-> 1 + Cardinality({i \in 1..n : IsBreak(in, i)}),
        column |-> 1 + SumOver([i \in 1..n |-> IF i > lastEol THEN Width(in[i]) ELSE 0], n)]

\* C10: the error of a token that fails to parse carries the position of the
\* token's first byte, which is the cursor's position when the token was
\* requested, whatever the cursor consumed since.
C10_ErrorAtTokenStart ==
    [][(pc # "err" /\ pc' = "err") =>
          /\ err'.kind = "InvalidInt"
          /\ [line |-> err'.line, column |-> err'.column] = PositionAfter(input, Consumed(de))
          /\ [line |-> err'.line, column |-> err'.column] = [line |-> de.line, column |-> de.column]]_vars

\* A token failed to parse and the cursor has since moved to the next line.
C10_Witness == pc = "err" /\ err.kind = "InvalidInt" /\ de.line > err.line /\ de.buf_b # <<>>

(***************************************************************************)
(* C11                                                                     *)
(***************************************************************************)
SameValue(a, b) == a.val = b.val /\ a.err.kind = b.err.kind

\* next_key has just returned a key whose ':' was found.
KeyWithColonReturned == pc = "key" /\ pc' = "value" /\ ~no_value'

\* The cursor d stands right after a ':' that no space follows, or right
\* after the one space that follows a ':'.
AfterSeparator(in, d) ==
    \/ /\ Consumed(d) >= 1
       /\ in[Consumed(d)] = COLON
       /\ Consumed(d) < Len(in) => in[Consumed(d) + 1] # SP
    \/ /\ Consumed(d) >= 2
       /\ in[Consumed(d)] = SP
       /\ in[Consumed(d) - 1] = COLON

\* The same key and value come from the input with a space put in after
\* the ':' the cursor d stands behind; k2 is next_key on that input.
SameWithSpace(in2, k2, d) ==
    /\ k2.has_key /\ ~k2.no_value /\ k2.key = d.buf_s
    /\ SameValue(Deserialize(in2, k2.d, FALSE, shape), Deserialize(input, d, FALSE, shape))

\* C11: after a key's ':' a single following space is the separator and no
\* part of the value: 'k:<v>' and 'k: <v>' decode to the same value for every
\* v that does not begin with a space, and only that one space is removed:
\* further leading spaces stay in the value.
C11_SeparatorSpace ==
    [][KeyWithColonReturned =>
          /\ AfterSeparator(input, de')
          /\ input[Consumed(de')] = COLON =>
                SameWithSpace(InsertAt(input, Consumed(de'), <<SP>>),
                              NextKeySeed(InsertAt(input, Consumed(de'), <<SP>>), de, no_value),
                              de')
          /\ (shape = <<"str">> /\ TextAhead(input, Consumed(de'), {}) # <<>>
                /\ Head(TextAhead(input, Consumed(de'), {})) = SP) =>
                Deserialize(input, de', FALSE, shape).val
                    = VStr(DecodeBytes(TextAhead(input, Consumed(de'), {})))]_vars

\* The first two conjuncts of C11 alone.
C11_SpaceIsSeparator ==
    [][KeyWithColonReturned =>
          /\ AfterSeparator(input, de')
          /\ input[Consumed(de')] = COLON =>
                SameWithSpace(InsertAt(input, Consumed(de'), <<SP>>),
                              NextKeySeed(InsertAt(input, Consumed(de'), <<SP>>), de, no_value),
                              de')]_vars

(***************************************************************************)
(* C12                                                                     *)
(***************************************************************************)
\* next_element of the outer sequence has just yielded an element that was
\* requested as a sequence of strings.
NestedSeqYielded ==
    pc = "elem" /\ Tail(shape) = <<"seq", "str">> /\ Len(elems') > Len(elems)

\* The cursor d2 stands where d stood, moved over text and what ends it.
MovedOver(d, d2, text) ==
    Consumed(d2) = Consumed(d) + Len(text) + (IF Consumed(d) + Len(text) < Len(input) THEN 1 ELSE 0)

\* C12: a sequence requested as an element of an outer sequence yields
\* exactly one sub-element, the text up to the next '|' or line end, and
\* then ends; the cursor moves over that text and its terminator only, so
\* every further '|' separates elements of the outer sequence.
C12_NestedSeqArity ==
    [][NestedSeqYielded =>
          /\ Len(elems'[Len(elems')].v) = 1
          /\ elems'[Len(elems')]
                = VSeq(<<VStr(DecodeBytes(TextAhead(input, Consumed(de), {PIPE})))>>)
          /\ MovedOver(de, de', TextAhead(input, Consumed(de), {PIPE}))]_vars

\* The first conjunct of C12 alone: one sub-element.
C12_OneSubElement ==
    [][NestedSeqYielded => Len(elems'[Len(elems')].v) = 1]_vars

(***************************************************************************)
(* C13                                                                     *)
(***************************************************************************)
\* C13: if the input is empty or holds only blank, whitespace-only and
\* comment lines, with or without a final line ending, the first next_key
\* reports that there are no entries: the decode goes from its first state
\* straight to its end, with nothing decoded.
C13_NoEntries ==
    EntryLines(input) = <<>> =>
        /\ out = <<>>
        /\ \/ pc = "key" /\ de = NewDeserializer
           \/ pc = "done"

\* next_key has reported the end for an input that holds a whitespace-only
\* line and a comment line.
C13_Witness ==
    /\ pc = "done"
    /\ EntryLines(input) = <<>>
    /\ \E i, j \in 1..Len(PhysicalLines(input)) :
          /\ PhysicalLines(input)[i] # <<>>
          /\ IsBlankLine(PhysicalLines(input)[i])
          /\ IsCommentLine(PhysicalLines(input)[j])

(***************************************************************************)
(* C14                                                                     *)
(***************************************************************************)
\* What the claim expects of a unit request: the token tok that one
\* fill_buf reads from the cursor, delivered as unit if it is empty and as
\* its text otherwise, with the cursor where that one fill_buf left it.
UnitExpected(tok) ==
    Delivered(DecodeBufAll(tok), IF tok.buf_b = <<>> THEN VUnit ELSE VStr(DecodeBytes(tok.buf_b)))

UnitAsExpected(got, want) ==
    /\ got.val = want.val
    /\ Consumed(got.d) = Consumed(want.d)
    /\ got.d.buf_b = want.d.buf_b

\* C14: when a unit shape is requested for a value, exactly one token is
\* read: if it is empty the unit value is produced, if not the text of that
\* same token is delivered as a string, and no byte beyond the token is
\* consumed.
C14_UnitReadsOneToken ==
    [][(pc = "value" /\ ~no_value /\ shape = <<"unit">>) =>
          /\ pc' = "key"
          /\ UnitAsExpected([d |-> de', val |-> out'[Len(out')].val],
                            UnitExpected(FillBufAuto(input, de, FALSE).d))]_vars

(***************************************************************************)
(* C15                                                                     *)
(***************************************************************************)
\* read_byte has just returned a byte; it is input[Consumed(de')].
ByteRead == call'.op = "read_byte" /\ call'.r # None

\* C15: line accounting.  After any calls of read_byte, Position.line is 1
\* plus the line breaks consumed, a CR immediately followed by LF counting as
\* one break and every other CR or LF as one each; every counted break sets
\* the column to 1, and the LF of a CR+LF pair changes neither line nor
\* column.
C15_LineAccounting ==
    [][/\ de'.line = PositionAfter(input, Consumed(de')).line
       /\ ByteRead =>
            IF IsBreak(input, Consumed(de'))
            THEN de'.line = de.line + 1 /\ de'.column = 1
            ELSE /\ de'.line = de.line
                 /\ input[Consumed(de')] = LF => de'.column = de.column]_vars

\* A CR+LF pair and one more line break have been read.
C15_Witness ==
    /\ call.op = "read_byte"
    /\ Consumed(de) = 3
    /\ input[1] = CR /\ input[2] = LF /\ input[3] \in {CR, LF}
    /\ de.line = 3 /\ de.column = 1

(***************************************************************************)
(* C16                                                                     *)
(***************************************************************************)
\* C16: column accounting.  Within a physical line each consumed tab
\* advances Position.column by 8, each control byte (0..31 other than tab, CR
\* and LF, and 127) by 0 and every other byte by 1: the column after a line
\* prefix is 1 + (ordinary bytes) + 8 * (tabs).
C16_ColumnAccounting ==
    de.column = 1 + SumOver([i \in 1..Consumed(de) |->
                               IF \E j \in i..Consumed(de) : input[j] \in {CR, LF} THEN 0
                               ELSE IF input[i] = TAB THEN 8
                               ELSE IF input[i] \in (0..31) \cup {DEL} THEN 0
                               ELSE 1],
                            Consumed(de))

\* A tab, a control byte and an ordinary byte of one line have been read.
C16_Witness ==
    /\ call.op = "read_byte"
    /\ Consumed(de) = 3
    /\ {input[1], input[2], input[3]} \in {{TAB, SOH, DIGIT1}, {TAB, DEL, COLON}}
    /\ de.column = 10

(***************************************************************************)
(* C17                                                                     *)
(***************************************************************************)
\* C17: under every interleaving of peek_byte and read_byte the bytes
\* read_byte has returned are the bytes of the source in source order, none
\* skipped and none duplicated; at most one byte is held ahead, and a pending
\* look-ahead byte is what the next read_byte returns, before any new byte
\* is fetched.
C17_BytesInSourceOrder ==
    [][/\ Len(returned') <= Len(input)
       /\ returned' = SubSeq(input, 1, Len(returned'))
       /\ de'.rd - Len(returned') = (IF de'.peeked_byte # None THEN 1 ELSE 0)
       /\ de'.peeked_byte # None => de'.peeked_byte = input[de'.rd]
       /\ (de.peeked_byte # None /\ call'.op = "read_byte") =>
             /\ call'.r = de.peeked_byte
             /\ ~call'.raw
             /\ de'.rd = de.rd]_vars

\* The whole input has been returned, its last byte from the look-ahead.
C17_Witness ==
    /\ call.op = "read_byte" /\ call.r # None /\ ~call.raw
    /\ Len(returned) = MaxLen
    /\ returned = input

(***************************************************************************)
(* C18                                                                     *)
(***************************************************************************)
\* C18: peek_byte leaves Position, last_byte, the end-of-file flag and the
\* token buffer as they are; consecutive calls of it return the same result,
\* and that result is what the next read_byte returns.
C18_PeekIsPure ==
    [][/\ call'.op = "peek_byte" =>
             /\ de'.line = de.line /\ de'.column = de.column
             /\ de'.last_byte = de.last_byte
             /\ de'.reached_eof = de.reached_eof
             /\ de'.buf_b = de.buf_b
       /\ (call.op = "peek_byte" /\ call'.op \in {"peek_byte", "read_byte"}) =>
             call'.r = call.r]_vars

\* A byte was peeked a second time, with a token in the buffer.
C18_Witness ==
    /\ call.op = "peek_byte" /\ ~call.raw
    /\ de.peeked_byte # None
    /\ de.buf_b # <<>>

(***************************************************************************)
(* C19                                                                     *)
(***************************************************************************)
\* C19: once the end-of-file flag is set, read_byte and peek_byte return
\* 'empty' without reading the byte source again, and in every reachable
\* state the flag implies that no look-ahead byte is pending.
C19_NoReadAfterEof ==
    [][/\ de'.reached_eof => de'.peeked_byte = None
       /\ (de.reached_eof /\ call'.op \in {"read_byte", "peek_byte"}) =>
             /\ call'.r = None
             /\ ~call'.raw
             /\ de' = de]_vars

\* peek_byte was called after the end of a non-empty input was flagged.
C19_Witness ==
    /\ de.reached_eof
    /\ call.op = "peek_byte" /\ call.r = None /\ ~call.raw
    /\ input # <<>> /\ returned = input

(***************************************************************************)
(* C20                                                                     *)
(***************************************************************************)
\* C20: after every fill_buf the token buffer holds no CR, no LF and no byte
\* of the delimiter set passed to the call; when the outcome is FoundDelim,
\* the delimiter has been consumed from the input (it is the last byte
\* consumed) and is not in the buffer.
C20_BufferHasNoDelimiter ==
    call.op = "fill_buf" =>
        /\ \A i \in 1..Len(de.buf_b) : de.buf_b[i] \notin ({CR, LF} \cup call.delimiters)
        /\ call.res = "FoundDelim" =>
              /\ call.r \in call.delimiters
              /\ Consumed(de) >= 1
              /\ input[Consumed(de)] = call.r
              /\ de.peeked_byte = None

\* fill_buf found its delimiter after a non-empty token.
C20_Witness ==
    /\ call.op = "fill_buf" /\ call.res = "FoundDelim"
    /\ de.buf_b # <<>>
    /\ input[Consumed(de)] \in {COLON, PIPE}

(***************************************************************************)
(* C21                                                                     *)
(***************************************************************************)
\* The cursor d stands in the middle of a physical line: behind a byte that
\* is no line ending.
MidLine(in, d) == Consumed(d) >= 1 /\ in[Consumed(d)] \notin {CR, LF}

\* The offset of the first line-ending byte after the first n bytes, or the
\* length of the input if there is none.
LineEnd(in, n) ==
    IF \E i \in (n + 1)..Len(in) : in[i] \in {CR, LF}
    THEN CHOOSE i \in (n + 1)..Len(in) :
            in[i] \in {CR, LF} /\ \A j \in (n + 1)..(i - 1) : in[j] \notin {CR, LF}
    ELSE Len(in)

\* The outcome f of a fill_buf called at the cursor d.
FillStaysOnLine(f, d) ==
    /\ f.res \in {"FoundDelim", "FoundEol", "FoundEof"}
    /\ Consumed(f.d) <= LineEnd(input, Consumed(d))

\* C21: a fill_buf that begins in the middle of a line recognizes no comment
\* and skips no line: it consumes at most up to and including the first
\* line-ending byte and returns FoundDelim, FoundEol or FoundEof; so a value
\* or a sequence element never holds bytes of a later line: the handler that
\* reads it consumes nothing beyond that line ending.
C21_MidLineFillStaysOnLine ==
    [][/\ MidLine(input, de) =>
             \A delimiters \in DelimiterSets :
                 FillStaysOnLine(FillBuf(input, de, delimiters), de)
       /\ (pc \in {"value", "elem"} /\ MidLine(input, de)) =>
             Consumed(de') <= LineEnd(input, Consumed(de))]_vars

\* The first conjunct of C21 alone, on the scanner with calls in any order;
\* the middle of a line is where the column is not 1.
C21_MidLineFill ==
    [][(call'.op = "fill_buf" /\ de.column # 1) =>
          /\ call'.res \in {"FoundDelim", "FoundEol", "FoundEof"}
          /\ Consumed(de') <= LineEnd(input, Consumed(de))]_vars

(***************************************************************************)
(* C22                                                                     *)
(***************************************************************************)
\* The input behind the line ending that ends the line the cursor d is in.
AfterThisLine(in, d) == SubSeq(in, LineEnd(in, Consumed(d)) + 1, Len(in))

\* next_key has returned the key of the first entry line of rest, or no key
\* if rest has no entry line.
NextEntryReturned(rest) ==
    IF EntryLines(rest) = <<>>
    THEN pc' = "done"
    ELSE /\ pc' = "value"
         /\ key' = DecodeBytes(KeyOf(EntryLines(rest)[1]))
         /\ no_value' = ~HasColon(EntryLines(rest)[1])

\* C22: a request to ignore the value produces its placeholder without
\* reading input and leaves the cursor as it is; and whenever a value decode
\* has left the cursor in the middle of a line, the next next_key discards
\* the rest of that physical line and returns the key of the next entry line
\* (no key if there is none), so that no byte of the unread remainder appears
\* in a later key or value.
C22_IgnoreAndSkip ==
    [][/\ (pc = "value" /\ ~no_value /\ shape = <<"ign">>) =>
             /\ de' = de
             /\ pc' = "key"
             /\ out' = Append(out, Entry(key, VUnit, FALSE))
       /\ (pc = "key" /\ out # <<>> /\ MidLine(input, de)) =>
             NextEntryReturned(AfterThisLine(input, de))]_vars

\* The first conjunct of C22 alone: the ignore request.
C22_IgnoreReadsNothing ==
    [][(pc = "value" /\ ~no_value /\ shape = <<"ign">>) =>
          /\ de' = de
          /\ pc' = "key"
          /\ out' = Append(out, Entry(key, VUnit, FALSE))]_vars

(***************************************************************************)
(* C23                                                                     *)
(***************************************************************************)
\* C23: a top-level value requested as a string is every byte of the line
\* after the key's first ':' and the one separator space, up to the line
\* ending or the end of input, with ':', '|' and '#' in it as ordinary data;
\* a value decoded as a sequence element ends at the next '|'.
C23_StringValueIsRestOfLine ==
    [][/\ (pc = "value" /\ ~no_value /\ shape = <<"str">>) =>
             /\ AfterSeparator(input, de)
             /\ \A i \in 1..Len(key) : key[i] # COLON
             /\ out' = Append(out, Entry(key, VStr(DecodeBytes(TextAhead(input, Consumed(de), {}))),
                                         FALSE))
       /\ (pc = "elem" /\ shape = <<"seq", "str">> /\ Len(elems') > Len(elems)) =>
             elems'[Len(elems')] = VStr(DecodeBytes(TextAhead(input, Consumed(de), {PIPE})))]_vars

(***************************************************************************)
(* C25                                                                     *)
(***************************************************************************)
\* What the claim expects of a char request: of the token tok that one
\* fill_buf reads, the character if its text is one character, and its text
\* as a string otherwise.
CharExpected(tok) ==
    Delivered(DecodeBufAll(tok),
              IF Len(tok.buf_b) = 1
              THEN VChar(DecodeByte(tok.buf_b[1]))
              ELSE VStr(DecodeBytes(tok.buf_b)))

\* C25: when a char shape is requested exactly one token is read; if its
\* decoded text is exactly one character that character is delivered,
\* otherwise (empty or longer) the text of that same token is delivered as a
\* string, and no error is raised.
C25_CharOrString ==
    [][(pc = "value" /\ ~no_value /\ shape = <<"char">>) =>
          /\ pc' = "key"
          /\ err' = NoError
          /\ UnitAsExpected([d |-> de', val |-> out'[Len(out')].val],
                            CharExpected(FillBufAuto(input, de, FALSE).d))]_vars

\* A char was requested of a token of two characters, which came as a
\* string.
C25_Witness ==
    /\ pc = "key" /\ shape = <<"char">>
    /\ Len(out) = 1
    /\ out[1].val.t = "str" /\ Len(out[1].val.v) = 2
    /\ ~out[1].no_value

(***************************************************************************)
(* C26                                                                     *)
(***************************************************************************)
\* C26: the end of the record protocol is stable.  Once next_key has
\* reported that there are no more entries, every later next_key reports the
\* same and consumes no input: the cursor, the flag and the entries stay as
\* they are.
C26_EndIsStable ==
    [][(pc = "done" \/ pc = "end") =>
          /\ pc' = "end"
          /\ de' = de
          /\ no_value' = no_value
          /\ out' = out]_vars

\* next_key was called again after the end of an input with entries, one
\* that ended in the middle of a line.
C26_Witness ==
    /\ pc = "end"
    /\ out # <<>>
    /\ de.column # 1
    /\ de.reached_eof

(***************************************************************************)
(* A byte source that fails.  from_reader takes any BufRead, and a read    *)
(* of it may return Err.  The answers of the source are the elements of    *)
(* input, bytes and the two kinds of Err, and the cursor is created for a  *)
(* file or for none.  The decoding specifications above read a slice       *)
(* (from_bytes), whose reads never return Err.                             *)
(***************************************************************************)
FaultAlphabet == {TAB, LF, HASH, DIGIT1, COLON, Interrupted, IoFailure}

InitFault ==
    /\ input \in SeqsUpTo(FaultAlphabet, MaxLen)
    /\ shape = <<"str">>
    /\ \E file \in Files : de = [NewDeserializer EXCEPT !.file = file]
    /\ no_value = FALSE
    /\ pc = "io"
    /\ key = <<>>
    /\ is_first_element = FALSE
    /\ elems = <<>>
    /\ out = <<>>
    /\ err = NoError
    /\ returned = <<>>
    /\ call = NoCall

SpecFault == InitFault /\ [][NextFill]_vars

\* The answers of the source without the interrupted reads, and the number
\* of the answers that the first n of in leave there.
WithoutInterrupts(in) == SelectSeq(in, LAMBDA b : b # Interrupted)

AnswersBefore(in, n) == Len(WithoutInterrupts(SubSeq(in, 1, n)))

Uninterrupted(in, d) == [d EXCEPT !.rd = AnswersBefore(in, d.rd)]

\* The first answer after the n-th that is not an interrupted read;
\* Len(in) + 1 when the source has only interrupted reads left.
FirstAnswer(in, n) ==
    IF \E i \in (n + 1)..Len(in) : in[i] # Interrupted
    THEN CHOOSE i \in (n + 1)..Len(in) :
             in[i] # Interrupted /\ \A j \in (n + 1)..(i - 1) : in[j] = Interrupted
    ELSE Len(in) + 1

\* The first failure after the n-th answer, 0 if there is none.
FirstFailure(in, n) ==
    IF \E i \in (n + 1)..Len(in) : in[i] = IoFailure
    THEN CHOOSE i \in (n + 1)..Len(in) :
             in[i] = IoFailure /\ \A j \in (n + 1)..(i - 1) : in[j] # IoFailure
    ELSE 0

\* The call that was made did on the source's answers what s, the same call
\* on the answers without the interrupted reads, did.
SameUninterrupted(s) ==
    /\ Uninterrupted(input, de') = s.d
    /\ call'.io = s.io

\* read_byte or peek_byte that had to read the source ended on the answer
\* i, the first that was not an interrupted read.
ReadEndedOn(i) ==
    IF i > Len(input)
    THEN /\ call'.r = None
         /\ call'.io = NoIoError
         /\ de'.rd = Len(input)
    ELSE IF input[i] = IoFailure
    THEN /\ call'.r = None
         /\ call'.io = IoError(de.file)
         /\ de' = [de EXCEPT !.rd = i]
    ELSE /\ call'.r = input[i]
         /\ call'.io = NoIoError
         /\ de'.rd = i
         /\ de'.file = de.file

\* fill_buf with the first failure ahead at j ended as t, the same call on
\* the answers before j: it failed if and only if it needed the answer j,
\* and then the cursor is as the bytes before j left it.
FillEndedAs(j, t) ==
    IF j # 0 /\ ~de.reached_eof /\ t.res = "FoundEof"
    THEN /\ call'.res = "Err"
         /\ call'.io = IoError(de.file)
         /\ de'.rd = j
         /\ de'.line = t.d.line
         /\ de'.column = t.d.column
         /\ de'.peeked_byte = None
         /\ de'.reached_eof = FALSE
         /\ de'.file = de.file
    ELSE /\ call'.res = t.res
         /\ call'.io = NoIoError
         /\ de' = t.d

AnswersBeforeFailure(j) == IF j = 0 THEN input ELSE SubSeq(input, 1, j - 1)

\* C24: an interrupted read of the source is retried until the source
\* answers with a byte, the end of input or another failure, and changes
\* nothing: read_byte, peek_byte and fill_buf do what they do on the answers
\* without the interrupted reads.  Any other failure is returned at once as
\* an Io error with the file of the cursor's Position, by the three of them,
\* with the line, the column and the peeked byte as they were before the
\* read that failed.
C24_IoFailures ==
    [][/\ call'.r \notin {Interrupted, IoFailure}
       /\ call'.io \in {NoIoError, IoError(de.file)}
       /\ call'.op = "read_byte" =>
              /\ SameUninterrupted(ReadByte(WithoutInterrupts(input), Uninterrupted(input, de)))
              /\ call'.raw => ReadEndedOn(FirstAnswer(input, de.rd))
              /\ ~call'.raw => call'.io = NoIoError
       /\ call'.op = "peek_byte" =>
              /\ SameUninterrupted(PeekByte(WithoutInterrupts(input), Uninterrupted(input, de)))
              /\ call'.raw => ReadEndedOn(FirstAnswer(input, de.rd))
              /\ ~call'.raw => call'.io = NoIoError
       /\ call'.op = "fill_buf" =>
              /\ SameUninterrupted(FillBuf(WithoutInterrupts(input), Uninterrupted(input, de),
                                           call'.delimiters))
              /\ FillEndedAs(FirstFailure(input, de.rd),
                             FillBuf(AnswersBeforeFailure(FirstFailure(input, de.rd)), de,
                                     call'.delimiters))]_vars

\* fill_buf of a cursor made for a file read a byte, was interrupted, and
\* failed on the next read.
C24_Witness ==
    /\ call.op = "fill_buf"
    /\ call.io = IoError("test.aa")
    /\ de.rd = 3
    /\ input[2] = Interrupted
    /\ de.column = 2

====
